---- MODULE Spec2Model ----
(***************************************************************************)
(* A model of FirmwareDeconstructor (extract_firmware.py): the decomposer  *)
(* of a WINC1500 flash dump.  One behaviour is one run of deconstruct() on *)
(* one dump file and one (optional) directory of source parts.             *)
(***************************************************************************)
EXTENDS Integers, Sequences, FiniteSets, TLC

VARIABLES
    firmware,   \* self.firmware: the dump, read once by __init__
    source,     \* self.source_parts_dir and the files in it
    regions,    \* self.regions
    pc,         \* position of the run inside deconstruct()
    offset,     \* the cursor of the certificate scan loop
    end_search, \* the exclusive end of the certificate scan
    idx,        \* the loop index i of _calculate_sizes_and_extract
    extents,    \* the (start, end) each extraction step sliced
    files,      \* the files written below output_dir, in write order
    log,        \* the lines printed, in order
    config      \* the lines of generated_flash_image.config

vars == <<firmware, source, regions, pc, offset, end_search, idx, extents, files, log, config>>

\* ------------------------------------------------------------ byte strings

FF == 255

NMIS == <<78, 77, 73, 83>>

NMID == <<78, 77, 73, 68>>

FTMA == <<70, 84, 77, 65>>

der_header == <<48, 130>>

Max(S) == CHOOSE x \in S : \A y \in S : y <= x

Min(S) == CHOOSE x \in S : \A y \in S : x <= y

\* ------------------------------------------------------------ the dump
\* A dump is its length, the byte of its erased (unwritten) flash, and the
\* chunks written into it; At is the byte at index i of the bytes object.

Covers(c, i) == c.at <= i /\ i < c.at + Len(c.bytes)

At(img, i) ==
    IF \E c \in img.chunks : Covers(c, i)
    THEN LET c == CHOOSE c \in img.chunks : Covers(c, i) IN c.bytes[i - c.at + 1]
    ELSE img.fill

\* firmware[a:b] for a, b >= 0, as the window [lo, hi) of the dump it
\* denotes: Python clamps both ends to the length, and an inverted range is
\* empty.  Bytes is the byte string of a window.
Slice(img, a, b) ==
    LET lo == IF a > img.len THEN img.len ELSE a
        hi == IF b > img.len THEN img.len ELSE b
    IN  [lo |-> lo, hi |-> IF hi < lo THEN lo ELSE hi]

Bytes(img, w) == [k \in 1..(w.hi - w.lo) |-> At(img, w.lo + k - 1)]

\* The indices i in lo..hi with firmware[i] = b: those inside a chunk that
\* hold b, and every index outside the chunks when b is the fill byte.
Positions(img, b, lo, hi) ==
    LET written == UNION {c.at..(c.at + Len(c.bytes) - 1) : c \in img.chunks}
    IN  {i \in written : lo <= i /\ i <= hi /\ At(img, i) = b}
        \cup (IF img.fill = b THEN (lo..hi) \ written ELSE {})

\* firmware.find(sub, start, end): the lowest index i >= start with
\* firmware[i:i+len(sub)] == sub lying inside [start, min(end, len)), else -1.
Find(img, sub, start, end) ==
    LET hi   == IF end > img.len THEN img.len ELSE end
        hits == {i \in Positions(img, sub[1], start, hi - Len(sub)) :
                    \A k \in 1..Len(sub) : At(img, i + k - 1) = sub[k]}
    IN  IF hits = {} THEN -1 ELSE Min(hits)

\* The indices i in lo..hi with firmware[i] # b.
PositionsNot(img, b, lo, hi) ==
    LET written == UNION {c.at..(c.at + Len(c.bytes) - 1) : c \in img.chunks}
    IN  {i \in written : lo <= i /\ i <= hi /\ At(img, i) # b}
        \cup (IF img.fill # b THEN (lo..hi) \ written ELSE {})

\* data[n:] of a window
Drop(w, n) == [lo |-> IF w.lo + n > w.hi THEN w.hi ELSE w.lo + n, hi |-> w.hi]

\* source_data[n:] of a byte string
DropBytes(data, n) == IF n >= Len(data) THEN <<>> ELSE SubSeq(data, n + 1, Len(data))

\* data.rstrip(b'\xff') of a window: it ends after its last byte that is
\* not 0xFF, and is empty when it has none.
\* (variant: one trailing 0xFF byte survives the trim)
RStripMutKeepsOne(img, w) ==
    LET keep == PositionsNot(img, FF, w.lo, w.hi - 1)
        last == IF keep = {} THEN w.lo + 1 ELSE Max(keep) + 2
    IN  [lo |-> w.lo, hi |-> IF last > w.hi THEN w.hi ELSE last]

RStrip(img, w) ==
    LET keep == PositionsNot(img, FF, w.lo, w.hi - 1)
    IN  [lo |-> w.lo, hi |-> IF keep = {} THEN w.lo ELSE Max(keep) + 1]

\* struct.unpack('>H', b)[0] of a 2-byte string
UnpackBE16(b) == b[1] * 256 + b[2]

\* ------------------------------------------------------------ regions
\* A region is the dict appended to self.regions.  A key the dict lacks is
\* type "none", schema 0, prefix "" and hasSize FALSE.  A name is its text
\* and, for f'certificate_{hex(offset)}', the offset it is formatted from.

Name(base) == [base |-> base, at |-> -1]

CertName(off) == [base |-> "certificate", at |-> off]

FixedRegion(base, off) ==
    [name |-> Name(base), offset |-> off, type |-> "none", schema |-> 0,
     prefix |-> "", hasSize |-> FALSE, size |-> 0]

FirmwareRegion(base, off, schema, prefix) ==
    [name |-> Name(base), offset |-> off, type |-> "firmware", schema |-> schema,
     prefix |-> prefix, hasSize |-> FALSE, size |-> 0]

CertificateRegion(off, total_length) ==
    [name |-> CertName(off), offset |-> off, type |-> "certificate", schema |-> 0,
     prefix |-> "", hasSize |-> TRUE, size |-> total_length]

\* name.replace(' ', '_')
Underscore(base) ==
    CASE base = "boot firmware"       -> "boot_firmware"
      [] base = "control sector"      -> "control_sector"
      [] base = "backup sector"       -> "backup_sector"
      [] base = "pll table"           -> "pll_table"
      [] base = "gain table"          -> "gain_table"
      [] base = "downloader firmware" -> "downloader_firmware"
      [] base = "wifi firmware"       -> "wifi_firmware"
      [] base = "ate firmware"        -> "ate_firmware"
      [] OTHER                        -> base

\* a path below a directory: os.path.join(dir, sub, filename)
Path(sub, name, ext) ==
    [sub |-> sub, base |-> Underscore(name.base), at |-> name.at, ext |-> ext]

RawPath(name) == [sub |-> "", base |-> name.base, at |-> name.at, ext |-> ""]

\* The five regions appended first, in code order.
FixedRegions ==
    << FirmwareRegion("boot firmware", 0, 1, "NMIS"),
       FixedRegion("control sector", 4096),
       FixedRegion("backup sector", 8192),
       FixedRegion("pll table", 12288),
       FixedRegion("gain table", 13312) >>

\* The occurrence-th (0-indexed) hit of magic, found by repeated find calls
\* each starting one past the previous hit; -1 when there are fewer.
RECURSIVE NthFind(_, _, _, _)
NthFind(img, magic, from, occurrence) ==
    LET hit == Find(img, magic, from + 1, img.len)
    IN  IF hit = -1 \/ occurrence = 0 THEN hit
        ELSE NthFind(img, magic, hit, occurrence - 1)

\* (variant: the first NMIS hit is taken for the downloader firmware)
MagicOffsetMutFirst(img, base) ==
    CASE base = "downloader firmware" -> NthFind(img, NMIS, -1, 0)
      [] base = "wifi firmware"       -> NthFind(img, NMID, -1, 0)
      [] base = "ate firmware"        -> NthFind(img, FTMA, -1, 0)

MagicOffset(img, base) ==
    CASE base = "downloader firmware" -> NthFind(img, NMIS, -1, 1)
      [] base = "wifi firmware"       -> NthFind(img, NMID, -1, 0)
      [] base = "ate firmware"        -> NthFind(img, FTMA, -1, 0)

\* The regions of the magic numbers that were found, in dict order.
MagicRegions(img) ==
    LET dl   == MagicOffset(img, "downloader firmware")
        wifi == MagicOffset(img, "wifi firmware")
        ate  == MagicOffset(img, "ate firmware")
    IN  (IF dl = -1 THEN <<>>
         ELSE <<FirmwareRegion("downloader firmware", dl, 1, "NMIS")>>)
        \o (IF wifi = -1 THEN <<>>
            ELSE <<FirmwareRegion("wifi firmware", wifi, 2, "NMID")>>)
        \o (IF ate = -1 THEN <<>>
            ELSE <<FirmwareRegion("ate firmware", ate, 4, "FTMA")>>)

\* end_search = wifi_firmware_offset if wifi_firmware_offset != -1 else len
\* (variant: no fallback to the length when NMID is missing)
EndSearchMutNoFallback(img) == MagicOffset(img, "wifi firmware")

EndSearch(img) ==
    LET wifi == MagicOffset(img, "wifi firmware")
    IN  IF wifi # -1 THEN wifi ELSE img.len

\* list.sort(key=offset): stable, so equal offsets keep their list order.
\* (variant: the list is left in append order)
SortByOffsetMutUnsorted(rs) == rs

RECURSIVE SortByOffset(_)
SortByOffset(rs) ==
    IF rs = <<>> THEN <<>>
    ELSE LET lo == Min({rs[k].offset : k \in 1..Len(rs)})
             k0 == Min({k \in 1..Len(rs) : rs[k].offset = lo})
         IN  <<rs[k0]>> \o SortByOffset([k \in 1..(Len(rs) - 1) |->
                                            IF k < k0 THEN rs[k] ELSE rs[k + 1]])

\* ------------------------------------------------------------ extraction

\* The exclusive end of region k (1-based) of the sorted list: its own size
\* when the dict has one, else the next region's offset, else the length.
RegionEnd(rs, k, img) ==
    IF rs[k].hasSize THEN rs[k].offset + rs[k].size
    ELSE IF k < Len(rs) THEN rs[k + 1].offset
    ELSE img.len

\* The header stripped from a firmware region's slice, by schema.
StripHeader(region, data) ==
    IF region.type = "firmware" /\ region.schema = 1 THEN Drop(data, 8)
    ELSE IF region.type = "firmware" /\ region.schema = 2 THEN Drop(data, 4)
    ELSE data

\* output_data of region k: slice, strip the header, trim trailing 0xFF.
OutputData(rs, k, img) ==
    Bytes(img, RStrip(img, StripHeader(rs[k],
                        Slice(img, rs[k].offset, RegionEnd(rs, k, img)))))

\* extracted_file_path
ExtractedFilePath(region) ==
    IF region.type = "certificate"
    THEN Path("certificates", region.name, ".der")
    ELSE Path("", region.name, ".bin")

\* _get_source_file_path: <<path>>, or <<>> for None.
GetSourceFilePath(src, name) ==
    IF ~src.dir THEN <<>>
    ELSE IF RawPath(name) \in DOMAIN src.files THEN <<RawPath(name)>>
    ELSE IF Path("", name, ".bin") \in DOMAIN src.files THEN <<Path("", name, ".bin")>>
    ELSE <<>>

\* data[0] = (data[0] - 4) & 0xFF on a non-empty bytearray
PatchFirstByte(data) == [data EXCEPT ![1] = (data[1] - 4) % 256]

\* _verify_part: what it does, and the two byte strings it compares.
VerifyPart(src, region, data) ==
    LET found == GetSourceFilePath(src, region.name)
        path  == found[1]
    IN  IF found = <<>>
        THEN [result |-> IF src.dir /\ region.type = "firmware"
                         THEN "warned" ELSE "skipped",
              data |-> data, source_data |-> <<>>]
        ELSE IF region.type = "firmware" /\ region.schema = 2 /\ data = <<>>
        THEN [result |-> "IndexError", data |-> data, source_data |-> src.files[path]]
        ELSE LET source_data == IF region.type = "firmware" /\ region.schema = 1
                                THEN DropBytes(src.files[path], 4)
                                ELSE src.files[path]
                 cmp == IF region.type = "firmware" /\ region.schema = 2
                        THEN PatchFirstByte(data)
                        ELSE data
             IN  [result |-> IF cmp # source_data THEN "failed" ELSE "verified",
                  data |-> cmp, source_data |-> source_data]

\* Where the extraction loop goes after _verify_part returned or raised for
\* region i (0-based) of n: exit(1) on a mismatch, the exception, the next
\* region, or back to deconstruct().
\* (variant: a mismatch does not end the run)
AfterVerifyMutNotFatal(result, i, n) ==
    IF result = "IndexError" THEN "IndexError"
    ELSE IF i + 1 < n THEN "extract" ELSE "generate_config"

AfterVerify(result, i, n) ==
    IF result = "failed" THEN "exit(1)"
    ELSE IF result = "IndexError" THEN "IndexError"
    ELSE IF i + 1 < n THEN "extract" ELSE "generate_config"

\* The lines of generated_flash_image.config.  A line is a record of its
\* fixed text and its fields; hex(offset) is kept as the number it prints.
RegionLines(rs) ==
    [k \in 1..Len(rs) |-> [text |-> "region at", offset |-> rs[k].offset, name |-> rs[k].name]]

RECURSIVE Sections(_)
Sections(rs) ==
    IF rs = <<>> THEN <<>>
    ELSE LET r == rs[1]
             head == <<[text |-> "section", name |-> r.name]>>
             body == IF r.type = "firmware"
                     THEN << [text |-> "type is firmware"],
                             [text |-> "schema is", schema |-> r.schema],
                             [text |-> "prefix is", prefix |-> r.prefix],
                             [text |-> "file is", file |-> Path("", r.name, ".bin")] >>
                     ELSE IF r.type = "certificate"
                     THEN << [text |-> "type is tls certificate"] >>
                     ELSE <<>>
         IN  head \o body \o <<[text |-> ""]>> \o Sections(Tail(rs))

ConfigLines(rs) ==
    << [text |-> "[flash]"], [text |-> "size is 1M"] >>
    \o RegionLines(rs) \o << [text |-> ""] >> \o Sections(rs)

\* ------------------------------------------------------------ inputs
\* The dumps and source directories a run is started on.

MaxChunks == 2

Chunk(at, bytes) == [at |-> at, bytes |-> bytes]

\* What a dump may hold, each at the offset it is written to.
Library ==
    { Chunk(0,     NMIS \o <<1, 2, 3, 4, 170, 187>>),          \* boot firmware
      Chunk(256,   der_header \o <<0, 5, 1, 2, 3, 4, 5>>),      \* certificate, L = 5
      Chunk(512,   der_header \o <<0, 6>> \o der_header \o <<0, 0, 7, FF>>),
                                                                \* nested tag, ends in FF
      Chunk(768,   der_header \o <<FF, FF>>),                   \* L runs past the end
      Chunk(4094,  der_header \o <<0, 2, 9, 9>>),               \* spans offset 0x1000
      Chunk(4096,  der_header \o <<0, 1, 5>>),                  \* at offset 0x1000
      Chunk(8192,  <<9, FF, 9, FF>>),                           \* backup sector data
      Chunk(8192,  NMID \o <<3, 85>>),                          \* NMID at 0x2000
      Chunk(13568, NMIS \o <<5, 6, 7, 8, 204>>),                \* second NMIS
      Chunk(13824, NMID \o <<16, 85>>),                         \* wifi, first byte 0x10
      Chunk(13824, NMID \o <<2>>),                              \* wifi, first byte 0x02
      Chunk(13824, NMID),                                       \* wifi, no payload
      Chunk(13856, der_header \o <<0, 1, 5>>),                  \* tag after NMID
      Chunk(14080, FTMA \o <<1, 0, FF>>),                       \* ate firmware
      Chunk(14334, der_header),                                 \* tag cut by the end
      Chunk(16,    der_header \o <<0, 1, 5>>),                  \* in a short dump
      Chunk(29,    der_header \o <<0>>) }                       \* cut by a short end

Lens == {32, 14336}

Disjoint(c, d) == c.at + Len(c.bytes) <= d.at \/ d.at + Len(d.bytes) <= c.at

\* The 0x9000-byte dump of the end-to-end scenario: NMIS at 0 and 0x4000,
\* NMID at 0x6000, a certificate at 0x100, and at 0x7000 a packed table entry
\* (name "index.htm", null-padded; little-endian size 10; 10 content bytes).
SyntheticImage ==
    [len |-> 36864, fill |-> FF,
     chunks |-> { Chunk(0,     NMIS \o <<1, 2, 3, 4, 170, 187>>),
                  Chunk(256,   der_header \o <<0, 5, 1, 2, 3, 4, 5>>),
                  Chunk(16384, NMIS \o <<5, 6, 7, 8, 204>>),
                  Chunk(24576, NMID \o <<16, 85>>),
                  Chunk(28672, <<105, 110, 100, 101, 120, 46, 104, 116, 109, 0, 0, 0,
                                 10, 0, 0, 0, 1, 2, 3, 4, 5, 6, 7, 8, 9, 10>>) }]

Images ==
    { img \in [len : Lens, fill : {FF}, chunks : SUBSET Library] :
        /\ Cardinality(img.chunks) <= MaxChunks
        /\ \A c \in img.chunks : c.at + Len(c.bytes) <= img.len
        /\ \A c, d \in img.chunks : c = d \/ Disjoint(c, d) }
    \cup {SyntheticImage}

\* The source parts: the files as built, each with its own 4-byte header
\* (schema 1) or with the first byte not yet patched (schema 2).
SourceParts ==
    (Path("", Name("boot firmware"), ".bin") :> <<0, 0, 0, 1, 170, 187>>)
    @@ (Path("", Name("wifi firmware"), ".bin") :> <<12, 85>>)

NoFiles == [p \in {} |-> <<>>]

Sources == { [dir |-> FALSE, files |-> NoFiles], [dir |-> TRUE, files |-> SourceParts] }

\* ------------------------------------------------------------ the run

Init ==
    /\ firmware \in Images
    /\ source \in Sources
    /\ regions = <<>>
    /\ pc = "find_regions"
    /\ offset = 0
    /\ end_search = 0
    /\ idx = 0
    /\ extents = <<>>
    /\ files = <<>>
    /\ log = <<>>
    /\ config = <<>>

\* _find_all_regions up to the certificate loop: the fixed regions, then
\* the magic numbers that are found.
FindMagicRegions ==
    /\ pc = "find_regions"
    /\ regions' = FixedRegions \o MagicRegions(firmware)
    /\ offset' = 0
    /\ end_search' = EndSearch(firmware)
    /\ pc' = "cert_scan"
    /\ UNCHANGED <<firmware, source, idx, extents, files, log, config>>

\* offset += total_length, from the hit
\* (variant: the cursor moves past the tag only)
CertScanAdvanceMutPastTag(hit, total_length) == hit + 2

CertScanAdvance(hit, total_length) == hit + total_length

\* One pass of the certificate loop.  When the loop ends (the condition is
\* false, or find returns -1) the regions are sorted and the method returns.
\* struct.unpack raises struct.error on fewer than 2 length bytes.
CertScanStep ==
    /\ pc = "cert_scan"
    /\ LET hit == IF offset < end_search
                  THEN Find(firmware, der_header, offset, end_search)
                  ELSE offset
           length_bytes == Bytes(firmware, Slice(firmware, hit + 2, hit + 4))
           total_length == 4 + UnpackBE16(length_bytes)
       IN  IF offset >= end_search \/ hit = -1
           THEN /\ regions' = SortByOffset(regions)
                /\ offset' = hit
                /\ pc' = "extract"
           ELSE IF Len(length_bytes) < 2
           THEN /\ offset' = hit
                /\ pc' = "struct.error"
                /\ UNCHANGED regions
           ELSE /\ regions' = Append(regions, CertificateRegion(hit, total_length))
                /\ offset' = CertScanAdvance(hit, total_length)
                /\ pc' = "cert_scan"
    /\ UNCHANGED <<firmware, source, end_search, idx, extents, files, log, config>>

\* One pass of the loop of _calculate_sizes_and_extract, _verify_part
\* included.  A failed verification writes the two debug files and exits
\* with status 1; data[0] of an empty bytearray raises IndexError.
ExtractRegion ==
    /\ pc = "extract"
    /\ idx < Len(regions)
    /\ LET k == idx + 1
           region == regions[k]
           output_data == OutputData(regions, k, firmware)
           path == ExtractedFilePath(region)
           v == VerifyPart(source, region, output_data)
           written == Append(files, [path |-> path, data |-> output_data])
           debug(ext) == Path("", region.name, ext)
       IN  /\ extents' = Append(extents, [start |-> region.offset,
                                          end |-> RegionEnd(regions, k, firmware)])
           /\ CASE v.result = "failed" ->
                    /\ files' = written
                          \o << [path |-> debug(".bin.extracted"), data |-> v.data],
                                [path |-> debug(".bin.source"), data |-> v.source_data] >>
                    /\ log' = Append(log, [text |-> "Error: Verification failed for",
                                           name |-> region.name])
                    /\ pc' = AfterVerify(v.result, idx, Len(regions))
                    /\ UNCHANGED <<regions, idx>>
                [] v.result = "IndexError" ->
                    /\ files' = written
                    /\ pc' = AfterVerify(v.result, idx, Len(regions))
                    /\ UNCHANGED <<regions, idx, log>>
                [] OTHER ->
                    /\ files' = written
                    /\ log' = log
                          \o (IF v.result = "warned"
                              THEN <<[text |-> "Warning: Source file not found for",
                                      name |-> region.name]>>
                              ELSE IF v.result = "verified"
                              THEN <<[text |-> "Verified", name |-> region.name]>>
                              ELSE <<>>)
                          \o <<[text |-> "Extracted", name |-> region.name]>>
                    /\ regions' = [regions EXCEPT ![k].hasSize = TRUE,
                                                  ![k].size = Len(output_data)]
                    /\ idx' = idx + 1
                    /\ pc' = AfterVerify(v.result, idx, Len(regions))
    /\ UNCHANGED <<firmware, source, offset, end_search, config>>

\* _generate_config
GenerateConfig ==
    /\ pc = "generate_config"
    /\ config' = ConfigLines(regions)
    /\ log' = Append(log, [text |-> "Generated flash_image.config", name |-> Name("")])
    /\ pc' = "done"
    /\ UNCHANGED <<firmware, source, regions, offset, end_search, idx, extents, files>>

Next ==
    \/ FindMagicRegions
    \/ CertScanStep
    \/ ExtractRegion
    \/ GenerateConfig

Spec == Init /\ [][Next]_vars

\* ------------------------------------------------------------ properties

\* _find_all_regions has returned: self.regions is the sorted list.
Located == pc \in {"extract", "generate_config", "done", "exit(1)", "IndexError"}

\* _calculate_sizes_and_extract has returned.
Resolved == pc \in {"generate_config", "done"}

\* The run is over: it returned, exited, or died of an exception.
Ended == pc \in {"done", "exit(1)", "IndexError", "struct.error"}

\* The big-endian 16-bit value of the two bytes after the tag at off.
DerLength(off) == At(firmware, off + 2) * 256 + At(firmware, off + 3)

IsCertificate(r) == r.type = "certificate"

IsFixed(r) == r.type = "none"

NonFixed == {k \in 1..Len(regions) : ~IsFixed(regions[k])}

\* Region k (1-based) has been through its whole extraction step.
Extracted(k) == Located /\ k <= idx

\* A mismatch was reported for some region.
MismatchReported ==
    \E j \in 1..Len(log) : log[j].text = "Error: Verification failed for"

\* The file written for region k, in write order the k-th.
FileOf(k) == files[k]

\* Every fixed offset lies inside the dump and no two regions share an
\* offset.
PlainLayout ==
    /\ firmware.len > 13312
    /\ \A j, k \in 1..Len(regions) : j # k => regions[j].offset # regions[k].offset

\* C1 as written, on the dumps that hold every fixed offset and give no two
\* regions the same offset: after location and size resolution the ranges
\* the regions were sliced at are strictly ascending, start at 0, each ends
\* where the next begins, and the last ends at the image length.
C1_Original ==
    Resolved /\ PlainLayout =>
        /\ \A k \in 1..(Len(regions) - 1) : regions[k].offset < regions[k + 1].offset
        /\ extents[1].start = 0
        /\ \A k \in 1..(Len(extents) - 1) : extents[k].end = extents[k + 1].start
        /\ extents[Len(extents)].end = firmware.len

\* C1 amended: after location and size resolution the regions are in
\* ascending (not strictly) offset order and the first starts at 0; a region
\* without a self-described size is sliced up to the next region's offset, or
\* to the image length when it is the last; a Certificate is sliced up to
\* offset + 4 + L, whatever the next region's offset is.
C1_Tiling ==
    Resolved =>
        /\ Len(extents) = Len(regions)
        /\ \A k \in 1..(Len(regions) - 1) : regions[k].offset <= regions[k + 1].offset
        /\ extents[1].start = 0
        /\ \A k \in 1..Len(regions) :
              /\ extents[k].start = regions[k].offset
              /\ IF IsCertificate(regions[k])
                 THEN extents[k].end = regions[k].offset + 4 + DerLength(regions[k].offset)
                 ELSE IF k < Len(regions)
                 THEN extents[k].end = regions[k + 1].offset
                 ELSE extents[k].end = firmware.len

\* C1 witness: a finished resolution with a Certificate whose range stops
\* short of the next region, and a region list that ends in a sized-by-
\* neighbour region.
C1_Witness ==
    /\ pc = "done"
    /\ PlainLayout
    /\ \E k \in 1..(Len(regions) - 1) :
          IsCertificate(regions[k]) /\ extents[k].end < extents[k + 1].start
    /\ ~IsCertificate(regions[Len(regions)])

\* A magic number the dump does not hold (for NMIS: not twice).
Missing(base) == MagicOffset(firmware, base) = -1

MagicNames == {"downloader firmware", "wifi firmware", "ate firmware"}

HasRegion(base) == \E k \in 1..Len(regions) : regions[k].name = Name(base)

FirmwareFileWritten ==
    \E j \in 1..Len(files) :
        files[j].path.base \in {"boot_firmware", "downloader_firmware",
                                "wifi_firmware", "ate_firmware"}

SyntheticNonFixed ==
    { [offset |-> 0,     type |-> "firmware",    schema |-> 1, size |-> 2],
      [offset |-> 256,   type |-> "certificate", schema |-> 0, size |-> 9],
      [offset |-> 16384, type |-> "firmware",    schema |-> 1, size |-> 1],
      [offset |-> 24576, type |-> "firmware",    schema |-> 2, size |-> 4118] }

Shape(r) == [offset |-> r.offset, type |-> r.type, schema |-> r.schema, size |-> r.size]

ConfigOffsets ==
    LET at == {j \in 1..Len(config) : config[j].text = "region at"}
    IN  [k \in 1..Cardinality(at) |-> config[Min(at) + k - 1].offset]

Certificates == {k \in 1..Len(regions) : IsCertificate(regions[k])}

\* C4: every Certificate region starts at a hit of 30 82; as located (until
\* its extraction step) its size is 4 + L, L the big-endian 16-bit value of
\* the next two bytes, and never more afterwards; and of two Certificate
\* regions the one found first ends at or before the start of the other.
C4_CertificateScan ==
    \A k \in Certificates :
        LET r == regions[k]
        IN  /\ At(firmware, r.offset) = 48
            /\ At(firmware, r.offset + 1) = 130
            /\ r.offset + 4 <= firmware.len
            /\ IF Extracted(k)
               THEN r.size <= 4 + DerLength(r.offset)
               ELSE r.size = 4 + DerLength(r.offset)
            /\ \A j \in Certificates :
                  j < k => regions[j].offset + regions[j].size <= r.offset

\* C4 witness: the scan has ended with two Certificate regions located, one
\* of them 30 82 00 05 and its 5 content bytes, of size 9.
C4_Witness ==
    /\ pc = "extract"
    /\ idx = 0
    /\ Cardinality(Certificates) >= 2
    /\ \E k \in Certificates :
          DerLength(regions[k].offset) = 5 /\ regions[k].size = 9

\* A byte string without its trailing 0xFF bytes.
TrimFF(data) ==
    LET keep == {k \in 1..Len(data) : data[k] # 255}
    IN  IF keep = {} THEN <<>> ELSE SubSeq(data, 1, Max(keep))

\* The raw payload of region k: the bytes of the range it was sliced at.
RawPayload(k) ==
    LET lo == IF extents[k].start > firmware.len THEN firmware.len ELSE extents[k].start
        hi == IF extents[k].end > firmware.len THEN firmware.len ELSE extents[k].end
    IN  [j \in 1..(hi - lo) |-> At(firmware, lo + j - 1)]

\* C5 as written, on the dumps of a plain layout: the file emitted for a
\* schema-2 firmware region with a raw payload r of at least 5 bytes is r
\* without its first 4 bytes, the first byte left decremented by 4 modulo
\* 256, then without trailing 0xFF (looked at where the file is not empty).
C5_Original ==
    \A k \in 1..Len(extents) :
        /\ PlainLayout
        /\ regions[k].type = "firmware" /\ regions[k].schema = 2
        /\ Len(RawPayload(k)) >= 5
        /\ FileOf(k).data # <<>>
        =>
            LET kept == SubSeq(RawPayload(k), 5, Len(RawPayload(k)))
            IN  FileOf(k).data = TrimFF([kept EXCEPT ![1] = (kept[1] - 4) % 256])

C8_Original ==
    Located => \A j, k \in 1..Len(regions) :
                  j # k => regions[j].offset # regions[k].offset

\* C9 as written: every region of the list lies inside the image, as
\* located and after size resolution.
C9_Original ==
    \A k \in 1..Len(regions) :
        /\ 0 <= regions[k].offset
        /\ regions[k].offset < firmware.len
        /\ regions[k].hasSize =>
              /\ regions[k].size >= 0
              /\ regions[k].offset + regions[k].size <= firmware.len

\* C10 as written: every pass of the certificate loop either ends the loop,
\* and with it reaches the sort, or moves the cursor forward by at least 4.
C10_Original ==
    [][pc = "cert_scan" =>
          \/ pc' = "extract"
          \/ pc' = "cert_scan" /\ offset' >= offset + 4]_vars

====
